---- MODULE Spec2Model ----
(***************************************************************************)
(* CLI-Task-Manager (src/src/main.rs): the urgency engine and the          *)
(* invocation that wraps it.                                               *)
(*                                                                         *)
(* One invocation of the program is main(): load task.json, recompute the  *)
(* urgencies, sort, execute the command given on the command line, save.   *)
(* The model steps main() with a program counter; the persisted file and   *)
(* the wall clock are what survives from one invocation to the next.       *)
(*                                                                         *)
(* Time.  A NaiveDateTime is the number of whole seconds since             *)
(* 1970-01-01 17:00:00 local time, so a due date typed as d/m/Y (fixed at  *)
(* 17:00:00 by set_partial_due_date) is a multiple of SecondsPerDay.       *)
(* Fractions of a second are dropped, as Duration::num_seconds drops them. *)
(* The clock is read once per invocation and never runs backwards.         *)
(*                                                                         *)
(* f32.  A value is [k, neg, n, d]: k = "fin" is the number (-1)^neg * n/d *)
(* in lowest terms (n = 0 is +0.0 or -0.0), k = "inf" is an infinity,      *)
(* k = "nan" is NaN.  The conversion i64 -> f32 rounds to 24 significant   *)
(* bits, ties to even, as the cast does.  Division and multiplication      *)
(* follow IEEE 754 for zeros, infinities and NaN; the quotient of two      *)
(* finite values is kept exact (its last-bit rounding is not modelled).    *)
(***************************************************************************)
EXTENDS Integers, Sequences, FiniteSets

\* ------------------------------------------------------------------ bounds
MaxTasks == 2
MaxRuns == 2

\* --------------------------------------------------------------- Option<T>
None == << >>
Some(x) == << x >>
IsSome(o) == Len(o) = 1
Unwrap(o) == o[1]

\* --------------------------------------------------------------------- f32
F32Precision == 16777216
SecondsPerDay == 86400

RECURSIVE Gcd(_, _)
Gcd(a, b) == IF b = 0 THEN a ELSE Gcd(b, a % b)

Fin(neg, n, d) ==
    LET g == Gcd(n, d)
    IN  [k |-> "fin", neg |-> neg, n |-> n \div g, d |-> d \div g]
Inf(neg) == [k |-> "inf", neg |-> neg, n |-> 0, d |-> 1]
NaN == [k |-> "nan", neg |-> FALSE, n |-> 0, d |-> 1]
Null == [k |-> "null", neg |-> FALSE, n |-> 0, d |-> 1]

IsNaN(a) == a.k = "nan"
IsFinite(a) == a.k = "fin"

\* The spacing of f32 values around the non-negative integer a.
RECURSIVE Ulp(_)
Ulp(a) == IF a < F32Precision THEN 1 ELSE 2 * Ulp(a \div 2)

\* `i as f32` for an i64: round to nearest, ties to even.
I64AsF32(i) ==
    LET a == IF i < 0 THEN -i ELSE i
        u == Ulp(a)
        q == a \div u
        r == a % u
        up == (2 * r > u) \/ (2 * r = u /\ q % 2 = 1)
    IN  Fin(i < 0, (IF up THEN q + 1 ELSE q) * u, 1)

\* a / b in f32, for finite a and b.
FDiv(a, b) ==
    IF b.n = 0
    THEN IF a.n = 0 THEN NaN ELSE Inf(a.neg # b.neg)
    ELSE Fin(a.neg # b.neg, a.n * b.d, a.d * b.n)

\* a * b in f32, for finite b.
FMul(a, b) ==
    CASE IsNaN(a) -> NaN
      [] a.k = "inf" -> IF b.n = 0 THEN NaN ELSE Inf(a.neg # b.neg)
      [] OTHER -> Fin(a.neg # b.neg, a.n * b.n, a.d * b.d)

\* a/b < c/d for naturals a, c and positive b, d, without forming a*d or c*b.
RECURSIVE FracLt(_, _, _, _)
FracLt(a, b, c, d) ==
    LET q1 == a \div b
        q2 == c \div d
        r1 == a % b
        r2 == c % d
    IN  IF q1 # q2 THEN q1 < q2
        ELSE IF r2 = 0 THEN FALSE
        ELSE IF r1 = 0 THEN TRUE
        ELSE FracLt(d, r2, b, r1)

\* |a| < |b| for a, b not NaN.
MagLt(a, b) ==
    IF a.k = "inf" THEN FALSE
    ELSE IF b.k = "inf" THEN TRUE
    ELSE FracLt(a.n, a.d, b.n, b.d)

\* The f32 comparison a < b: false when either is NaN, and -0.0 = +0.0.
FLt(a, b) ==
    IF IsNaN(a) \/ IsNaN(b) THEN FALSE
    ELSE IF a.n = 0 /\ b.n = 0 /\ IsFinite(a) /\ IsFinite(b) THEN FALSE
    ELSE IF a.neg # b.neg THEN a.neg
    ELSE IF a.neg THEN MagLt(b, a)
    ELSE MagLt(a, b)
FGt(a, b) == FLt(b, a)
FEq(a, b) == ~IsNaN(a) /\ ~IsNaN(b) /\ ~FLt(a, b) /\ ~FLt(b, a)
FLe(a, b) == FLt(a, b) \/ FEq(a, b)
FGe(a, b) == FLe(b, a)

\* f32::to_bits(a) < f32::to_bits(b) as u32, for a, b not NaN: the sign bit is the
\* top bit, below it the magnitude.
BitsLt(a, b) ==
    IF a.neg # b.neg THEN b.neg
    ELSE MagLt(a, b)

\* -------------------------------------------------------------- constants
URGENCY_MULTIPLIER == Fin(FALSE, 1, 2)
DEFAULT_URGENCY == Fin(FALSE, 3, 1)
MINIMUM_URGENCY == Fin(FALSE, 0, 1)
MAXIMUM_URGENCY == Fin(FALSE, 10, 1)
NegZero == Fin(TRUE, 0, 1)

\* ------------------------------------------------------------ input sets
\* Wall-clock readings: the epoch, one second later, 8 days later, and one second
\* after 17:00:00 of day 195 (15/07/1970).
Clock == {0, 1, 8 * SecondsPerDay, 195 * SecondsPerDay + 1}
\* The name a task is added with, and the name an edit gives it.
Titles == {"a"}
NewTitles == {"b"}
Descriptions == {"d"}
\* What -u/--urgency parses to: -0.0, 11 and -1.
UrgencyArgs == {NegZero, Fin(FALSE, 11, 1), Fin(TRUE, 1, 1)}
\* What -D/--due-time is given: two dates and one that does not parse.
DateStrings == {"01/01/1970", "15/07/1970", "31/02/1970"}
\* The usize ids a command is given: every valid one and the first invalid one.
Ids(tasks) == 0 .. Len(tasks)

\* ------------------------------------------------------------------ state
VARIABLES
    file,          \* task.json: the persisted tasks (<< >>: no file, or no tasks)
    now,           \* the wall clock, in seconds
    pc,            \* where main() is: exit, loaded, calculated, sorted, executed, panicked
    task_manager,  \* main's task_manager.tasks
    opt,           \* main's opt: the parsed command line
    runs           \* invocations started so far

vars == << file, now, pc, task_manager, opt, runs >>

Task(title, description, status, urgency, start_time, due_time) ==
    [title |-> title, description |-> description, status |-> status,
     urgency |-> urgency, start_time |-> start_time, due_time |-> due_time]

Opt(cmd, id, name, description, urgency, due_time) ==
    [cmd |-> cmd, id |-> id, name |-> name, description |-> description,
     urgency |-> urgency, due_time |-> due_time]
NoOpt == Opt("none", 0, None, None, None, None)

\* ------------------------------------------------------------ persistence
\* serde_json writes a non-finite f32 as null.
SerializeF32(u) == IF IsFinite(u) THEN u ELSE Null

\* save_to_file: what serde_json::to_writer_pretty leaves in task.json.
SaveToFile(tasks) ==
    [i \in 1 .. Len(tasks) |-> [tasks[i] EXCEPT !.urgency = SerializeF32(@)]]

\* load_from_file, and main's fallback: an urgency of null is not an f32, the
\* load fails, and main starts from TaskManager::new().
LoadFromFile(f) ==
    IF \E i \in 1 .. Len(f) : f[i].urgency = Null THEN << >> ELSE f

\* ----------------------------------------------------- calculate_urgencies
\* Duration::num_days: whole days, truncated toward zero.
NumDays(seconds) ==
    IF seconds >= 0 THEN seconds \div SecondsPerDay
    ELSE -((-seconds) \div SecondsPerDay)

\* Faulty variant: the deadline floor clamped to MAXIMUM_URGENCY like the age floor.
DeadlineMinimumUrgencyCapped(task, t) ==
    LET m == FMul(FDiv(I64AsF32(t - Unwrap(task.start_time)),
                       I64AsF32(Unwrap(task.due_time) - Unwrap(task.start_time))),
                  MAXIMUM_URGENCY)
    IN  IF FGt(m, MAXIMUM_URGENCY) THEN MAXIMUM_URGENCY ELSE m

\* Faulty variant: the deadline ratio formed over the length of the span, sign dropped.
DeadlineMinimumUrgencyAbs(task, t) ==
    LET total == Unwrap(task.due_time) - Unwrap(task.start_time)
    IN  FMul(FDiv(I64AsF32(t - Unwrap(task.start_time)),
                  I64AsF32(IF total < 0 THEN -total ELSE total)),
             MAXIMUM_URGENCY)

\* The Some(due_time) arm: the ratio of elapsed to total seconds, times 10.
DeadlineMinimumUrgency(task, t) ==
    LET total_time_difference == Unwrap(task.due_time) - Unwrap(task.start_time)
        time_difference_since_start_time == t - Unwrap(task.start_time)
        difference_difference_ratio ==
            FDiv(I64AsF32(time_difference_since_start_time),
                 I64AsF32(total_time_difference))
    IN  FMul(difference_difference_ratio, MAXIMUM_URGENCY)

\* Faulty variant: the age floor without its clamp.
AgeMinimumUrgencyUncapped(task, t) ==
    FMul(I64AsF32(NumDays(t - Unwrap(task.start_time))), URGENCY_MULTIPLIER)

\* The None arm: half a point per whole day, at most 10.
AgeMinimumUrgency(task, t) ==
    LET days_difference == NumDays(t - Unwrap(task.start_time))
        minimum_urgency == FMul(I64AsF32(days_difference), URGENCY_MULTIPLIER)
    IN  IF FGt(minimum_urgency, MAXIMUM_URGENCY) THEN MAXIMUM_URGENCY
        ELSE minimum_urgency

MinimumUrgency(task, t) ==
    IF IsSome(task.due_time) THEN DeadlineMinimumUrgency(task, t)
    ELSE AgeMinimumUrgency(task, t)

\* Faulty variant: the floor assigned whether or not it exceeds the stored urgency.
CalculateUrgencyAssigning(task, t) ==
    IF task.status # "Done"
    THEN [task EXCEPT !.urgency = MinimumUrgency(task, t)]
    ELSE task

\* One iteration of the loop.
CalculateUrgency(task, t) ==
    IF task.status # "Done"
    THEN LET minimum_urgency == MinimumUrgency(task, t)
         IN  IF FGt(minimum_urgency, task.urgency)
             THEN [task EXCEPT !.urgency = minimum_urgency]
             ELSE task
    ELSE task

\* The loop reaches task.start_time.unwrap() on a None.
UnwrapPanics(tasks) ==
    \E i \in 1 .. Len(tasks) :
        tasks[i].status # "Done" /\ tasks[i].start_time = None

CalculateUrgencies(tasks, t) ==
    [i \in 1 .. Len(tasks) |-> CalculateUrgency(tasks[i], t)]

\* ------------------------------------------------------- sort_by_urgencies
\* The sort key Reverse(urgency.to_bits()): a sorts strictly before b.
KeyLt(a, b) == BitsLt(b.urgency, a.urgency)

\* t put into the sorted s behind every element whose key is not greater.
RECURSIVE InsertByKey(_, _)
InsertByKey(s, t) ==
    IF s = << >> THEN << t >>
    ELSE IF KeyLt(t, Head(s)) THEN << t >> \o s
    ELSE << Head(s) >> \o InsertByKey(Tail(s), t)

\* Vec::sort_by_key: a stable sort.
RECURSIVE SortByKey(_)
SortByKey(s) ==
    IF s = << >> THEN << >>
    ELSE InsertByKey(SortByKey(SubSeq(s, 1, Len(s) - 1)), s[Len(s)])

SortByUrgencies(tasks) == SortByKey(tasks)

\* ------------------------------------------------------------ the setters
\* A usize id is 0-based; the sequence is 1-based.
AddTask(tasks, title, t) ==
    Append(tasks, Task(title, "", "Inactive", DEFAULT_URGENCY, Some(t), None))

VerifyId(tasks, id) == id < Len(tasks)

SetTaskName(tasks, id, new_name) ==
    IF VerifyId(tasks, id) THEN [tasks EXCEPT ![id + 1].title = new_name]
    ELSE tasks

SetTaskDescription(tasks, id, new_description) ==
    IF VerifyId(tasks, id)
    THEN [tasks EXCEPT ![id + 1].description = new_description]
    ELSE tasks

\* Faulty variant: a Done task keeps its status.
SetTaskStatusKeepingDone(tasks, id, new_status) ==
    IF id < Len(tasks) /\ tasks[id + 1].status # "Done"
    THEN [tasks EXCEPT ![id + 1].status = new_status]
    ELSE tasks

SetTaskStatus(tasks, id, new_status) ==
    IF VerifyId(tasks, id) THEN [tasks EXCEPT ![id + 1].status = new_status]
    ELSE tasks

UrgencyInRange(new_urgency) ==
    FGe(new_urgency, MINIMUM_URGENCY) /\ FLe(new_urgency, MAXIMUM_URGENCY)

SetUrgency(tasks, id, new_urgency) ==
    IF VerifyId(tasks, id) /\ UrgencyInRange(new_urgency)
    THEN [tasks EXCEPT ![id + 1].urgency = new_urgency]
    ELSE tasks

SetDueDate(tasks, id, new_due_date) ==
    IF VerifyId(tasks, id)
    THEN [tasks EXCEPT ![id + 1].due_time = Some(new_due_date)]
    ELSE tasks

\* NaiveDateTime::parse_from_str(date_str + " 17:00:00", "%d/%m/%Y %H:%M:%S"):
\* Some(seconds since 1970-01-01 17:00:00), or None for Err.
ParseFromStr(date_str) ==
    CASE date_str = "01/01/1970" -> Some(0)
      [] date_str = "15/07/1970" -> Some(195 * SecondsPerDay)
      [] OTHER -> None

SetPartialDueDate(tasks, id, date_str) ==
    LET parsed == ParseFromStr(date_str)
    IN  IF IsSome(parsed) THEN SetDueDate(tasks, id, Unwrap(parsed))
        ELSE tasks

RemoveTaskById(tasks, id) ==
    IF VerifyId(tasks, id)
    THEN SubSeq(tasks, 1, id) \o SubSeq(tasks, id + 2, Len(tasks))
    ELSE tasks

\* show_task unwraps the start time of the task it prints.
ShowTaskPanics(tasks, id) ==
    VerifyId(tasks, id) /\ tasks[id + 1].start_time = None

\* `if let Some(x) = arg { setter(id, x) }`.
IfSome(arg, tasks, applied) == IF IsSome(arg) THEN applied ELSE tasks

\* The optional arguments of add and edit, applied in main's order.
ApplyOptions(tasks, id, name, description, urgency, due_time) ==
    LET t1 == IfSome(name, tasks, SetTaskName(tasks, id, Unwrap(name)))
        t2 == IfSome(description, t1, SetTaskDescription(t1, id, Unwrap(description)))
        t3 == IfSome(urgency, t2, SetUrgency(t2, id, Unwrap(urgency)))
    IN  IfSome(due_time, t3, SetPartialDueDate(t3, id, Unwrap(due_time)))

OptionOf(S) == {None} \cup {Some(x) : x \in S}

\* ---------------------------------------------------------------- actions
\* A new invocation: main() up to and including the load.
Begin ==
    /\ pc \in {"exit", "panicked"}
    /\ runs < MaxRuns
    /\ \E t \in Clock : t >= now /\ now' = t
    /\ task_manager' = LoadFromFile(file)
    /\ pc' = "loaded"
    /\ opt' = NoOpt
    /\ runs' = runs + 1
    /\ UNCHANGED file

\* Faulty variant: a task without a start time is skipped instead of unwrapped.
CalculateUrgenciesStepSkipping ==
    /\ pc = "loaded"
    /\ pc' = "calculated"
    /\ task_manager' =
          [i \in 1 .. Len(task_manager) |->
              IF task_manager[i].start_time = None THEN task_manager[i]
              ELSE CalculateUrgency(task_manager[i], now)]
    /\ UNCHANGED << file, now, opt, runs >>

\* task_manager.calculate_urgencies(), or the panic of its unwrap.
CalculateUrgenciesStep ==
    /\ pc = "loaded"
    /\ IF UnwrapPanics(task_manager)
       THEN pc' = "panicked" /\ task_manager' = << >>
       ELSE pc' = "calculated"
            /\ task_manager' = CalculateUrgencies(task_manager, now)
    /\ UNCHANGED << file, now, opt, runs >>

\* task_manager.sort_by_urgencies().
SortByUrgenciesStep ==
    /\ pc = "calculated"
    /\ task_manager' = SortByUrgencies(task_manager)
    /\ pc' = "sorted"
    /\ UNCHANGED << file, now, opt, runs >>

\* Opt::from_args() rejects the command line (or prints help) and exits.
FromArgsExits ==
    /\ pc = "sorted"
    /\ pc' = "exit"
    /\ task_manager' = << >>
    /\ UNCHANGED << file, now, opt, runs >>

Executed(o, tasks) ==
    /\ pc = "sorted"
    /\ opt' = o
    /\ task_manager' = tasks
    /\ pc' = "executed"
    /\ UNCHANGED << file, now, runs >>

CommandAdd ==
    /\ Len(task_manager) < MaxTasks
    /\ \E name \in Titles, description \in OptionOf(Descriptions),
          urgency \in OptionOf(UrgencyArgs), due_time \in OptionOf(DateStrings) :
          LET added == AddTask(task_manager, name, now)
          IN  Executed(Opt("Add", 0, Some(name), description, urgency, due_time),
                       ApplyOptions(added, Len(added) - 1, None, description,
                                    urgency, due_time))

CommandView ==
    \E id \in Ids(task_manager) :
        IF ShowTaskPanics(task_manager, id)
        THEN /\ pc = "sorted"
             /\ pc' = "panicked"
             /\ task_manager' = << >>
             /\ opt' = Opt("View", id, None, None, None, None)
             /\ UNCHANGED << file, now, runs >>
        ELSE Executed(Opt("View", id, None, None, None, None), task_manager)

CommandList == Executed(Opt("List", 0, None, None, None, None), task_manager)

CommandEdit ==
    \E id \in Ids(task_manager), name \in OptionOf(NewTitles),
       description \in OptionOf(Descriptions),
       urgency \in OptionOf(UrgencyArgs),
       due_time \in OptionOf(DateStrings) :
        Executed(Opt("Edit", id, name, description, urgency, due_time),
                 ApplyOptions(task_manager, id, name, description, urgency, due_time))

CommandStart ==
    \E id \in Ids(task_manager) :
        Executed(Opt("Start", id, None, None, None, None),
                 SetTaskStatus(task_manager, id, "Active"))

CommandStop ==
    \E id \in Ids(task_manager) :
        Executed(Opt("Stop", id, None, None, None, None),
                 SetTaskStatus(task_manager, id, "Inactive"))

CommandDone ==
    \E id \in Ids(task_manager) :
        Executed(Opt("Done", id, None, None, None, None),
                 SetUrgency(SetTaskStatus(task_manager, id, "Done"), id,
                            MINIMUM_URGENCY))

CommandRemove ==
    \E id \in Ids(task_manager) :
        Executed(Opt("Remove", id, None, None, None, None),
                 RemoveTaskById(task_manager, id))

\* task_manager.save_to_file(&app_data_dir)?; Ok(())
SaveStep ==
    /\ pc = "executed"
    /\ file' = SaveToFile(task_manager)
    /\ pc' = "exit"
    /\ task_manager' = << >>
    /\ opt' = NoOpt
    /\ UNCHANGED << now, runs >>

Next ==
    \/ Begin
    \/ CalculateUrgenciesStep
    \/ SortByUrgenciesStep
    \/ FromArgsExits
    \/ CommandAdd
    \/ CommandView
    \/ CommandList
    \/ CommandEdit
    \/ CommandStart
    \/ CommandStop
    \/ CommandDone
    \/ CommandRemove
    \/ SaveStep

\* No task.json yet: the first load fails and main starts from TaskManager::new().
Init ==
    /\ file = << >>
    /\ now = 0
    /\ pc = "exit"
    /\ task_manager = << >>
    /\ opt = NoOpt
    /\ runs = 0

Spec == Init /\ [][Next]_vars

\* A task.json the program did not write in this history: edited by hand, or
\* left by an older build.  Any urgency and any null the format admits.
FileTasks ==
    { Task("a", "", "Inactive", Fin(TRUE, 1, 1), Some(0), None),
      Task("a", "", "Done", MINIMUM_URGENCY, None, None),
      Task("a", "", "Active", DEFAULT_URGENCY, None, None),
      Task("b", "", "Inactive", Fin(FALSE, 50, 1), Some(0), None),
      Task("b", "d", "Done", MINIMUM_URGENCY, Some(0), Some(SecondsPerDay)),
      Task("a", "", "Inactive", DEFAULT_URGENCY, Some(8 * SecondsPerDay), None),
      Task("a", "", "Active", DEFAULT_URGENCY, Some(0), Some(SecondsPerDay)),
      Task("b", "", "Inactive", NegZero, Some(1), Some(0)),
      Task("b", "", "Inactive", DEFAULT_URGENCY, Some(0), Some(195 * SecondsPerDay)),
      Task("a", "", "Inactive", Null, Some(0), Some(0)) }

SeqsUpTo(S, n) == UNION { [1 .. k -> S] : k \in 0 .. n }

\* One invocation, the last of the budget, that finds such a file.
InitFile ==
    /\ file \in SeqsUpTo(FileTasks, MaxTasks)
    /\ now = 0
    /\ pc = "exit"
    /\ task_manager = << >>
    /\ opt = NoOpt
    /\ runs = MaxRuns - 1

SpecFile == InitFile /\ [][Next]_vars

\* ------------------------------------------------------------------ claims
Positions == 1 .. Len(task_manager)
Recomputes == pc = "loaded" /\ pc' = "calculated"
Sorts == pc = "calculated" /\ pc' = "sorted"
Executes == pc = "sorted" /\ pc' = "executed"

\* C1: after calculate_urgencies and sort_by_urgencies every adjacent pair of the
\* collection is in descending numeric order of urgency, Done tasks included, for
\* any stored urgency values.
C1_SortedDescending ==
    pc = "sorted" =>
        \A i \in 1 .. Len(task_manager) - 1 :
            FGe(task_manager[i].urgency, task_manager[i + 1].urgency)

\* C2: calculate_urgencies never lowers a stored urgency: a task that is not Done
\* ends with an urgency >= the one it had, a Done task with exactly the one it had.
C2_NeverLowers ==
    [][Recomputes =>
        /\ Len(task_manager') = Len(task_manager)
        /\ \A i \in Positions :
              IF task_manager[i].status = "Done"
              THEN task_manager'[i].urgency = task_manager[i].urgency
              ELSE FGe(task_manager'[i].urgency, task_manager[i].urgency)]_vars

\* C2's case: the recompute has run over a Done task that is overdue (its ratio
\* would put the floor above its stored 0) and over an open task it has raised.
C2_Witness ==
    /\ pc = "calculated"
    /\ Len(file) = Len(task_manager)
    /\ \E i \in Positions :
          /\ task_manager[i].status = "Done"
          /\ IsSome(task_manager[i].due_time) /\ IsSome(task_manager[i].start_time)
          /\ Unwrap(task_manager[i].start_time) < Unwrap(task_manager[i].due_time)
          /\ Unwrap(task_manager[i].due_time) < now
          /\ task_manager[i].urgency = MINIMUM_URGENCY
    /\ \E j \in Positions :
          /\ task_manager[j].status # "Done"
          /\ FGt(task_manager[j].urgency, file[j].urgency)

\* An open task whose due time lies after its start and before the clock.
Overdue(task, t) ==
    /\ task.status # "Done"
    /\ IsSome(task.due_time) /\ IsSome(task.start_time)
    /\ Unwrap(task.start_time) < Unwrap(task.due_time)
    /\ Unwrap(task.due_time) < t

\* f32(t - start) / f32(due - start) * 10: the floor as the code forms it.
F32RatioTimesTen(task, t) ==
    FMul(FDiv(I64AsF32(t - Unwrap(task.start_time)),
              I64AsF32(Unwrap(task.due_time) - Unwrap(task.start_time))),
         Fin(FALSE, 10, 1))

C4_AgeBranchCapped ==
    /\ \A i \in Positions :
          task_manager[i].due_time = None =>
              FLe(task_manager[i].urgency, Fin(FALSE, 10, 1))
    /\ \A i \in 1 .. Len(file) :
          file[i].due_time = None =>
              IsFinite(file[i].urgency) /\ FLe(file[i].urgency, Fin(FALSE, 10, 1))

\* C4's case: the recompute has run over a task without a due time that is more
\* than 20 days old (half a point per day would exceed 10) and holds exactly 10.0.
C4_Witness ==
    /\ pc = "calculated"
    /\ \E i \in Positions :
          /\ task_manager[i].due_time = None
          /\ now - Unwrap(task_manager[i].start_time) > 20 * SecondsPerDay
          /\ task_manager[i].urgency = Fin(FALSE, 10, 1)

Rearrangements(n) ==
    { p \in [1 .. n -> 1 .. n] : \A i, j \in 1 .. n : i # j => p[i] # p[j] }

\* C5: the sort is stable under numeric equality: the tasks can be matched to
\* their new positions so that any two whose urgencies are numerically equal keep
\* their order.
C5_StableSort ==
    [][Sorts =>
        \E p \in Rearrangements(Len(task_manager)) :
            /\ \A i \in Positions : task_manager'[p[i]] = task_manager[i]
            /\ \A i, j \in Positions :
                  (i < j /\ FEq(task_manager[i].urgency, task_manager[j].urgency))
                      => p[i] < p[j]]_vars

\* C6: after calculate_urgencies an open task whose due time equals its start
\* time, with the clock at or after the start, holds a finite urgency.
C6_DegenerateFinite ==
    (pc \in {"calculated", "sorted"}) =>
        \A i \in Positions :
            ( /\ task_manager[i].status # "Done"
              /\ IsSome(task_manager[i].due_time)
              /\ task_manager[i].due_time = task_manager[i].start_time
              /\ now >= Unwrap(task_manager[i].start_time) )
                => IsFinite(task_manager[i].urgency)

Statuses(tasks) == [i \in 1 .. Len(tasks) |-> tasks[i].status]
StatusFor(cmd) ==
    CASE cmd = "Start" -> "Active" [] cmd = "Stop" -> "Inactive" [] OTHER -> "Done"

\* C7: add_task appends a task with the given title, status Inactive, urgency 3.0
\* and no due time; start/stop/done with a valid id set the status of the task at
\* that position to Active/Inactive/Done whatever it was before, and of no other
\* task; no other step of the invocation changes the status of any task.
C7_StatusFrame ==
    [][/\ (Executes /\ opt'.cmd = "Add") =>
            LET new == task_manager'[Len(task_manager')]
            IN  /\ Len(task_manager') = Len(task_manager) + 1
                /\ SubSeq(task_manager', 1, Len(task_manager)) = task_manager
                /\ new.title = Unwrap(opt'.name)
                /\ new.status = "Inactive"
                /\ new.start_time = Some(now)
                /\ (opt'.urgency = None => new.urgency = Fin(FALSE, 3, 1))
                /\ (opt'.due_time = None => new.due_time = None)
       /\ (Executes /\ opt'.cmd \in {"Start", "Stop", "Done"}
                    /\ opt'.id < Len(task_manager)) =>
            /\ Len(task_manager') = Len(task_manager)
            /\ \A i \in Positions :
                  task_manager'[i].status =
                      IF i = opt'.id + 1 THEN StatusFor(opt'.cmd)
                      ELSE task_manager[i].status
       /\ (Executes /\ opt'.cmd \in {"View", "List", "Edit"}) =>
            Statuses(task_manager') = Statuses(task_manager)
       /\ (Executes /\ opt'.cmd = "Remove" /\ opt'.id < Len(task_manager)) =>
            task_manager' = [i \in 1 .. Len(task_manager) - 1 |->
                                IF i <= opt'.id THEN task_manager[i]
                                ELSE task_manager[i + 1]]
       /\ Recomputes => Statuses(task_manager') = Statuses(task_manager)
       /\ Sorts =>
            \E p \in Rearrangements(Len(task_manager)) :
                \A i \in Positions : task_manager'[p[i]] = task_manager[i]]_vars

\* C7's case: start has been applied to a collection whose tasks were all Done,
\* and the task at the given position is Active.
C7_Witness ==
    /\ pc = "executed"
    /\ opt.cmd = "Start"
    /\ opt.id < Len(task_manager)
    /\ Len(file) = Len(task_manager)
    /\ \A i \in 1 .. Len(file) : file[i].status = "Done"
    /\ task_manager[opt.id + 1].status = "Active"

\* An open task whose due time lies before its start, with a stored urgency >= 0
\* and the clock at or after the start.
BackwardDated(task, t) ==
    /\ task.status # "Done"
    /\ IsSome(task.due_time) /\ IsSome(task.start_time)
    /\ Unwrap(task.due_time) < Unwrap(task.start_time)
    /\ Unwrap(task.start_time) <= t
    /\ FGe(task.urgency, Fin(FALSE, 0, 1))

C9_AnyMissingStartAborts ==
    [][(pc = "loaded" /\ \E i \in Positions : task_manager[i].start_time = None)
          => (pc' = "panicked" /\ file' = file)]_vars

\* C9 as amended: if any task of the loaded collection that is not Done has no
\* start time, the invocation aborts in the recompute step; no command is executed,
\* nothing is saved, and task.json keeps its content until a later invocation.
C9_OpenMissingStartAborts ==
    [][/\ (pc = "loaded" /\ \E i \in Positions :
                              /\ task_manager[i].status # "Done"
                              /\ task_manager[i].start_time = None)
            => (pc' = "panicked" /\ file' = file /\ opt' = NoOpt)
       /\ pc = "panicked" => (pc' = "loaded" /\ file' = file)]_vars

\* C9's case: the invocation has aborted in the recompute step (no command was
\* parsed) over a file that holds an open task without a start time.
C9_Witness ==
    /\ pc = "panicked"
    /\ opt = NoOpt
    /\ \E i \in 1 .. Len(file) :
          file[i].status # "Done" /\ file[i].start_time = None

\* The id of a view/edit/start/stop/done command is not below the length.
InvalidId(o, tasks) ==
    o.cmd \in {"View", "Edit", "Start", "Stop", "Done"} /\ o.id >= Len(tasks)

\* The command line of o without its urgency option.
WithoutUrgency(o) == [o EXCEPT !.urgency = None]

\* What add or edit with the options of o makes of tasks.
AddOrEdit(o, tasks, t) ==
    IF o.cmd = "Add"
    THEN ApplyOptions(AddTask(tasks, Unwrap(o.name), t), Len(tasks), None,
                      o.description, o.urgency, o.due_time)
    ELSE ApplyOptions(tasks, o.id, o.name, o.description, o.urgency, o.due_time)

\* C10: a command whose id is not below the collection length changes no task and
\* no ordering; an urgency outside [0.0, 10.0] given to add or edit is dropped
\* while the other options apply; the invocation still reaches the save, and what
\* the save leaves in task.json is exactly the collection in memory.
C10_RejectedStillSaves ==
    [][/\ (pc = "sorted" /\ opt' # NoOpt /\ InvalidId(opt', task_manager)) =>
            (pc' = "executed" /\ task_manager' = task_manager)
       /\ (pc = "sorted" /\ opt'.cmd = "Remove" /\ opt'.id >= Len(task_manager)) =>
            (pc' = "executed" /\ task_manager' = task_manager)
       /\ (pc = "sorted" /\ opt'.cmd \in {"Add", "Edit"} /\ IsSome(opt'.urgency)
             /\ ~(/\ FLe(Fin(FALSE, 0, 1), Unwrap(opt'.urgency))
                  /\ FLe(Unwrap(opt'.urgency), Fin(FALSE, 10, 1)))) =>
            /\ pc' = "executed"
            /\ task_manager' = AddOrEdit(WithoutUrgency(opt'), task_manager, now)
       /\ (pc = "executed" /\ InvalidId(opt, task_manager)) =>
            (pc' = "exit" /\ LoadFromFile(file') = task_manager)]_vars

====
